---- MODULE Spec2Model ----
\* Model of x/blog/keeper/ibc_post.go: the four IBC packet callbacks of the
\* blog module (transmit, receive, acknowledgement, timeout), the three
\* record stores they write and the channel keeper they call.
EXTENDS Integers, Sequences, FiniteSets, TLC

VARIABLES
    chain,   \* chain id -> keeper state: the three stores and the channel keeper's state
    last,    \* the last callback invocation: its arguments, its result, the state before it
    hist,    \* every reconciler invocation so far, with the records it created
    nCalls   \* number of harness invocations so far

vars == <<chain, last, hist, nCalls>>

-----------------------------------------------------------------------------
\* Bounds

MaxCalls == 3
MaxSends == 3

-----------------------------------------------------------------------------
\* Errors: a Go error is the sequence of its messages, outermost first; nil is <<>>.

Nil == <<>>

New(msg) == <<msg>>

Wrap(err, msg) == <<msg>> \o err

ErrChannelNotFound == New("channel not found")
ErrSequenceSendNotFound == New("sequence send not found")
ErrChannelCapabilityNotFound == New("channel capability not found")
ErrJSONMarshal == New("failed to marshal JSON bytes")
ErrInvalidPacket == New("invalid packet")
ErrInvalidData == New("invalid packet data")
ErrUnmarshalAck == New("cannot unmarshal acknowledgment")
ErrAckFormat == New("the counter-party module does not implement the correct acknowledgment format")

-----------------------------------------------------------------------------
\* strconv.FormatUint(id, 10)

Digit(d) ==
    CASE d = 0 -> "0" [] d = 1 -> "1" [] d = 2 -> "2" [] d = 3 -> "3" [] d = 4 -> "4"
      [] d = 5 -> "5" [] d = 6 -> "6" [] d = 7 -> "7" [] d = 8 -> "8" [] d = 9 -> "9"

RECURSIVE FormatUint(_)
FormatUint(n) ==
    IF n < 10 THEN Digit(n) ELSE FormatUint(n \div 10) \o Digit(n % 10)

-----------------------------------------------------------------------------
\* The JSON codec. Bytes are modelled as the sequence of JSON tokens they
\* spell: P(c) a punctuation mark, Str(s) a string literal.

P(c) == <<"p", c>>
Str(s) == <<"s", s>>

\* A string that is not valid UTF-8 and that the codec refuses to encode.
BadString == "\\xff"

EncodeAck(packetAck) ==
    <<P("{"), Str("postID"), P(":"), Str(packetAck.PostID), P("}")>>

\* ModuleCdc.UnmarshalJSON(bytes, &packetAck): [ok, packetAck]
DecodeAck(bytes) ==
    IF bytes = <<P("{"), P("}")>>
    THEN [ok |-> TRUE, packetAck |-> [PostID |-> ""]]
    ELSE IF /\ Len(bytes) = 5
            /\ bytes[1] = P("{")
            /\ bytes[2] = Str("postID")
            /\ bytes[3] = P(":")
            /\ bytes[4][1] = "s"
            /\ bytes[5] = P("}")
    THEN [ok |-> TRUE, packetAck |-> [PostID |-> bytes[4][2]]]
    ELSE [ok |-> FALSE, packetAck |-> [PostID |-> ""]]

\* IbcPostPacketData.GetBytes(): [bytes, err]
GetBytes(data) ==
    IF BadString \in {data.Title, data.Content, data.Creator}
    THEN [bytes |-> <<>>, err |-> New("string field contains invalid UTF-8")]
    ELSE [bytes |-> <<P("{"), Str("ibcPostPacket"), P(":"), P("{"),
                      Str("title"), P(":"), Str(data.Title), P(","),
                      Str("content"), P(":"), Str(data.Content), P(","),
                      Str("creator"), P(":"), Str(data.Creator),
                      P("}"), P("}")>>,
          err |-> Nil]

\* Decoding of a packet's payload by the module's packet router: [ok, data]
DecodePacketData(bytes) ==
    IF /\ Len(bytes) = 17
       /\ SubSeq(bytes, 1, 6) = <<P("{"), Str("ibcPostPacket"), P(":"), P("{"), Str("title"), P(":")>>
       /\ bytes[7][1] = "s"
       /\ SubSeq(bytes, 8, 10) = <<P(","), Str("content"), P(":")>>
       /\ bytes[11][1] = "s"
       /\ SubSeq(bytes, 12, 14) = <<P(","), Str("creator"), P(":")>>
       /\ bytes[15][1] = "s"
       /\ SubSeq(bytes, 16, 17) = <<P("}"), P("}")>>
    THEN [ok |-> TRUE,
          data |-> [Title |-> bytes[7][2], Content |-> bytes[11][2], Creator |-> bytes[15][2]]]
    ELSE [ok |-> FALSE, data |-> [Title |-> "", Content |-> "", Creator |-> ""]]

\* IbcPostPacketData.ValidateBasic()
ValidateBasic(data) ==
    IF data.Creator = "" \/ data.Title = "" THEN ErrInvalidData ELSE Nil

-----------------------------------------------------------------------------
\* The record stores: a counter and the records keyed by the id it assigned.

EmptyList == [i \in {} |-> 0]

NewStore(count) == [count |-> count, list |-> EmptyList]

\* Append*(ctx, record): the record is stored under id = count, the counter
\* advances by one, the id is returned.
StoreAppend(store, record) ==
    [store |-> [count |-> store.count + 1,
                list |-> (store.count :> [record EXCEPT !.Id = store.count]) @@ store.list],
     id |-> store.count]

AppendPost(k, post) ==
    LET r == StoreAppend(k.posts, post) IN [k |-> [k EXCEPT !.posts = r.store], id |-> r.id]

AppendSentPost(k, sentPost) ==
    LET r == StoreAppend(k.sentPosts, sentPost) IN [k |-> [k EXCEPT !.sentPosts = r.store], id |-> r.id]

AppendTimedoutPost(k, timedoutPost) ==
    LET r == StoreAppend(k.timedoutPosts, timedoutPost)
    IN [k |-> [k EXCEPT !.timedoutPosts = r.store], id |-> r.id]

-----------------------------------------------------------------------------
\* The channel keeper and the capability keeper, as the module uses them.

ZeroHeight == [RevisionNumber |-> 0, RevisionHeight |-> 0]

\* host.ChannelCapabilityPath(portID, channelID)
ChannelCapabilityPath(portID, channelID) ==
    "ports/" \o portID \o "/channels/" \o channelID

\* ChannelKeeper.GetChannel: [channel, found]
GetChannel(k, portID, channelID) ==
    IF <<portID, channelID>> \in DOMAIN k.channels
    THEN [channel |-> k.channels[<<portID, channelID>>], found |-> TRUE]
    ELSE [channel |-> [Counterparty |-> [PortID |-> "", ChannelID |-> ""]], found |-> FALSE]

\* ChannelKeeper.GetNextSequenceSend: [sequence, found]
GetNextSequenceSend(k, portID, channelID) ==
    IF <<portID, channelID>> \in DOMAIN k.nextSequenceSend
    THEN [sequence |-> k.nextSequenceSend[<<portID, channelID>>], found |-> TRUE]
    ELSE [sequence |-> 0, found |-> FALSE]

\* ScopedKeeper.GetCapability: [cap, ok]
GetCapability(k, name) ==
    IF name \in k.capabilities
    THEN [cap |-> [name |-> name], ok |-> TRUE]
    ELSE [cap |-> [name |-> ""], ok |-> FALSE]

\* Mutant of NewPacket: the source end and the destination end change places.
NewPacket_SwappedEnds(data, sequence, sourcePort, sourceChannel, destinationPort, destinationChannel, timeoutHeight, timeoutTimestamp) ==
    [Sequence |-> sequence,
     SourcePort |-> destinationPort,
     SourceChannel |-> destinationChannel,
     DestinationPort |-> sourcePort,
     DestinationChannel |-> sourceChannel,
     Data |-> data,
     TimeoutHeight |-> timeoutHeight,
     TimeoutTimestamp |-> timeoutTimestamp]

\* channeltypes.NewPacket
NewPacket(data, sequence, sourcePort, sourceChannel, destinationPort, destinationChannel, timeoutHeight, timeoutTimestamp) ==
    [Sequence |-> sequence,
     SourcePort |-> sourcePort,
     SourceChannel |-> sourceChannel,
     DestinationPort |-> destinationPort,
     DestinationChannel |-> destinationChannel,
     Data |-> data,
     TimeoutHeight |-> timeoutHeight,
     TimeoutTimestamp |-> timeoutTimestamp]

\* ChannelKeeper.SendPacket: refuses a packet with no timeout, with no data,
\* on an unknown channel, with a capability of another channel or with a sequence
\* other than the next one; otherwise it commits the packet and advances the
\* send sequence of the channel. [k, err]
SendPacket(k, channelCap, packet) ==
    LET end == <<packet.SourcePort, packet.SourceChannel>> IN
    IF \/ (packet.TimeoutHeight = ZeroHeight /\ packet.TimeoutTimestamp = 0)
       \/ Len(packet.Data) = 0
       \/ packet.Sequence = 0
    THEN [k |-> k, err |-> Wrap(ErrInvalidPacket, "packet failed basic validation")]
    ELSE IF end \notin DOMAIN k.channels
    THEN [k |-> k, err |-> Wrap(ErrChannelNotFound, packet.SourceChannel)]
    ELSE IF channelCap.name # ChannelCapabilityPath(packet.SourcePort, packet.SourceChannel)
    THEN [k |-> k, err |-> Wrap(ErrChannelCapabilityNotFound, "caller does not own capability for channel")]
    ELSE IF \/ end \notin DOMAIN k.nextSequenceSend
            \/ packet.Sequence # k.nextSequenceSend[end]
    THEN [k |-> k, err |-> Wrap(ErrInvalidPacket, "packet sequence is not next sequence send")]
    ELSE [k |-> [k EXCEPT !.nextSequenceSend[end] = @ + 1,
                          !.commitments = @ \cup {packet}],
          err |-> Nil]

-----------------------------------------------------------------------------
\* The four callbacks of ibc_post.go. Each takes the keeper state k and its
\* arguments and returns the keeper state after it with what it returns.

NoPacket == NewPacket(<<>>, 0, "", "", "", "", ZeroHeight, 0)

NoCapability == [name |-> ""]

\* Mutant of TransmitSend: the module advances the send sequence itself after
\* a successful SendPacket.
TransmitSend_Advance(k, channelCap, packet) ==
    LET sp == SendPacket(k, channelCap, packet)
        end == <<packet.SourcePort, packet.SourceChannel>>
    IN [k |-> IF sp.err = Nil THEN [sp.k EXCEPT !.nextSequenceSend[end] = @ + 1] ELSE sp.k,
        sent |-> TRUE, packet |-> packet, cap |-> channelCap, err |-> sp.err]

\* Mutant of TransmitSend: a packet the transport accepted is recorded as a
\* sent post at once.
TransmitSend_RecordSent(k, channelCap, packet) ==
    LET sp == SendPacket(k, channelCap, packet)
        sentPost == [Id |-> 0, Creator |-> "", PostID |-> "", Title |-> "",
                     Chain |-> packet.DestinationPort \o "-" \o packet.DestinationChannel]
    IN [k |-> IF sp.err = Nil THEN AppendSentPost(sp.k, sentPost).k ELSE sp.k,
        sent |-> TRUE, packet |-> packet, cap |-> channelCap, err |-> sp.err]

\* Mutant of TransmitSend: the transport's error is wrapped before it is
\* returned.
TransmitSend_Wrap(k, channelCap, packet) ==
    LET sp == SendPacket(k, channelCap, packet)
    IN [k |-> sp.k, sent |-> TRUE, packet |-> packet, cap |-> channelCap,
        err |-> IF sp.err = Nil THEN Nil ELSE Wrap(sp.err, "cannot send the packet")]

\* The hand-over to the transport and the return of its result.
TransmitSend(k, channelCap, packet) ==
    LET sp == SendPacket(k, channelCap, packet)
    IN [k |-> sp.k, sent |-> TRUE, packet |-> packet, cap |-> channelCap, err |-> sp.err]

\* Mutant of TransmitIbcPostPacket: the capability is looked up before the
\* send sequence.
TransmitIbcPostPacket_CapabilityFirst(k, packetData, sourcePort, sourceChannel, timeoutHeight, timeoutTimestamp) ==
    LET ch == GetChannel(k, sourcePort, sourceChannel)
        seq == GetNextSequenceSend(k, sourcePort, sourceChannel)
        cap == GetCapability(k, ChannelCapabilityPath(sourcePort, sourceChannel))
        enc == GetBytes(packetData)
        packet == NewPacket(enc.bytes, seq.sequence, sourcePort, sourceChannel,
                            ch.channel.Counterparty.PortID, ch.channel.Counterparty.ChannelID,
                            timeoutHeight, timeoutTimestamp)
    IN
    IF ~ch.found
    THEN [k |-> k, sent |-> FALSE, packet |-> NoPacket, cap |-> NoCapability,
          err |-> Wrap(ErrChannelNotFound,
                       "port ID (" \o sourcePort \o ") channel ID (" \o sourceChannel \o ")")]
    ELSE IF ~cap.ok
    THEN [k |-> k, sent |-> FALSE, packet |-> NoPacket, cap |-> NoCapability,
          err |-> Wrap(ErrChannelCapabilityNotFound, "module does not own channel capability")]
    ELSE IF ~seq.found
    THEN [k |-> k, sent |-> FALSE, packet |-> NoPacket, cap |-> NoCapability,
          err |-> Wrap(ErrSequenceSendNotFound,
                       "source port: " \o sourcePort \o ", source channel: " \o sourceChannel)]
    ELSE IF enc.err # Nil
    THEN [k |-> k, sent |-> FALSE, packet |-> NoPacket, cap |-> NoCapability,
          err |-> Wrap(ErrJSONMarshal, "cannot marshal the packet: " \o enc.err[1])]
    ELSE TransmitSend(k, cap.cap, packet)

\* TransmitIbcPostPacket: [k, err, sent, packet, cap]; sent tells whether
\* SendPacket was invoked, packet and cap are what was handed to it.
TransmitIbcPostPacket(k, packetData, sourcePort, sourceChannel, timeoutHeight, timeoutTimestamp) ==
    LET ch == GetChannel(k, sourcePort, sourceChannel)
        destinationPort == ch.channel.Counterparty.PortID
        destinationChannel == ch.channel.Counterparty.ChannelID
        seq == GetNextSequenceSend(k, sourcePort, sourceChannel)
        cap == GetCapability(k, ChannelCapabilityPath(sourcePort, sourceChannel))
        enc == GetBytes(packetData)
        packet == NewPacket(enc.bytes, seq.sequence, sourcePort, sourceChannel,
                            destinationPort, destinationChannel, timeoutHeight, timeoutTimestamp)
    IN
    IF ~ch.found
    THEN [k |-> k, sent |-> FALSE, packet |-> NoPacket, cap |-> NoCapability,
          err |-> Wrap(ErrChannelNotFound,
                       "port ID (" \o sourcePort \o ") channel ID (" \o sourceChannel \o ")")]
    ELSE IF ~seq.found
    THEN [k |-> k, sent |-> FALSE, packet |-> NoPacket, cap |-> NoCapability,
          err |-> Wrap(ErrSequenceSendNotFound,
                       "source port: " \o sourcePort \o ", source channel: " \o sourceChannel)]
    ELSE IF ~cap.ok
    THEN [k |-> k, sent |-> FALSE, packet |-> NoPacket, cap |-> NoCapability,
          err |-> Wrap(ErrChannelCapabilityNotFound, "module does not own channel capability")]
    ELSE IF enc.err # Nil
    THEN [k |-> k, sent |-> FALSE, packet |-> NoPacket, cap |-> NoCapability,
          err |-> Wrap(ErrJSONMarshal, "cannot marshal the packet: " \o enc.err[1])]
    ELSE TransmitSend(k, cap.cap, packet)

\* Mutant of ReceivedPost: the creator is copied from the payload as it is.
ReceivedPost_RawCreator(packet, data) ==
    [Id |-> 0, Creator |-> data.Creator, Title |-> data.Title, Content |-> data.Content]

\* The post a received packet creates.
ReceivedPost(packet, data) ==
    [Id |-> 0,
     Creator |-> packet.SourcePort \o "-" \o packet.SourceChannel \o "-" \o data.Creator,
     Title |-> data.Title,
     Content |-> data.Content]

\* Mutant of OnRecvIbcPostPacket: the post is appended before the payload is validated.
OnRecvIbcPostPacket_AppendFirst(k, packet, data) ==
    LET r == AppendPost(k, ReceivedPost(packet, data))
        verr == ValidateBasic(data)
    IN IF verr # Nil
       THEN [k |-> r.k, packetAck |-> [PostID |-> ""], err |-> verr]
       ELSE [k |-> r.k, packetAck |-> [PostID |-> FormatUint(r.id)], err |-> Nil]

\* Mutant of OnRecvIbcPostPacket: a payload that fails validation uses up the
\* next id of the post store.
OnRecvIbcPostPacket_SkipId(k, packet, data) ==
    LET verr == ValidateBasic(data)
        r == AppendPost(k, ReceivedPost(packet, data))
    IN IF verr # Nil
       THEN [k |-> [k EXCEPT !.posts.count = @ + 1], packetAck |-> [PostID |-> ""], err |-> verr]
       ELSE [k |-> r.k, packetAck |-> [PostID |-> FormatUint(r.id)], err |-> Nil]

\* OnRecvIbcPostPacket: [k, packetAck, err]
OnRecvIbcPostPacket(k, packet, data) ==
    LET verr == ValidateBasic(data)
        r == AppendPost(k, ReceivedPost(packet, data))
    IN IF verr # Nil
       THEN [k |-> k, packetAck |-> [PostID |-> ""], err |-> verr]
       ELSE [k |-> r.k, packetAck |-> [PostID |-> FormatUint(r.id)], err |-> Nil]

\* An acknowledgement is [type, result, error]: type "Result" carries result
\* bytes, type "Error" an error string; any other type is a response that is
\* neither (a nil response, or another implementation of the interface).
ResultAck(bytes) == [type |-> "Result", result |-> bytes, error |-> ""]
ErrorAck(msg) == [type |-> "Error", result |-> <<>>, error |-> msg]
NilAck == [type |-> "nil", result |-> <<>>, error |-> ""]
OtherAck == [type |-> "other", result |-> <<>>, error |-> ""]

\* Mutant of SentPostOf: the chain is the packet's source end.
SentPostOf_SourceChain(packet, data, packetAck) ==
    [Id |-> 0, Creator |-> data.Creator, PostID |-> packetAck.PostID, Title |-> data.Title,
     Chain |-> packet.SourcePort \o "-" \o packet.SourceChannel]

\* The record of an acknowledged post.
SentPostOf(packet, data, packetAck) ==
    [Id |-> 0,
     Creator |-> data.Creator,
     PostID |-> packetAck.PostID,
     Title |-> data.Title,
     Chain |-> packet.DestinationPort \o "-" \o packet.DestinationChannel]

\* The record of a timed-out post.
TimedoutPostOf(packet, data) ==
    [Id |-> 0,
     Title |-> data.Title,
     Creator |-> data.Creator,
     Chain |-> packet.DestinationPort \o "-" \o packet.DestinationChannel]

\* Mutant of OnAckError: a failed acknowledgement is recorded as a sent post.
OnAckError_AsSent(k, packet, data, errorMsg) ==
    [k |-> AppendSentPost(k, SentPostOf(packet, data, [PostID |-> ""])).k, err |-> Nil]

\* Mutant of OnAckError: a failed acknowledgement is recorded as a timed-out post.
OnAckError_AsTimedout(k, packet, data, errorMsg) ==
    [k |-> AppendTimedoutPost(k, TimedoutPostOf(packet, data)).k, err |-> Nil]

\* case *channeltypes.Acknowledgement_Error
OnAckError(k, packet, data, errorMsg) == [k |-> k, err |-> Nil]

\* Mutant of OnAckResult: the timed-out posts of the acknowledged payload are
\* removed when its sent post is appended.
OnAckResult_ClearTimedout(k, packet, data, result) ==
    LET dec == DecodeAck(result)
        r == AppendSentPost(k, SentPostOf(packet, data, dec.packetAck))
        kept == {i \in DOMAIN k.timedoutPosts.list :
                    [k.timedoutPosts.list[i] EXCEPT !.Id = 0] # TimedoutPostOf(packet, data)}
    IN IF ~dec.ok THEN [k |-> k, err |-> ErrUnmarshalAck]
       ELSE [k |-> [r.k EXCEPT !.timedoutPosts.list = [i \in kept |-> k.timedoutPosts.list[i]]],
             err |-> Nil]

\* Mutant of OnAckResult: the sent post is appended before the decode error is returned.
OnAckResult_AppendFirst(k, packet, data, result) ==
    LET dec == DecodeAck(result)
        r == AppendSentPost(k, SentPostOf(packet, data, dec.packetAck))
    IN IF ~dec.ok THEN [k |-> r.k, err |-> ErrUnmarshalAck] ELSE [k |-> r.k, err |-> Nil]

\* case *channeltypes.Acknowledgement_Result
OnAckResult(k, packet, data, result) ==
    LET dec == DecodeAck(result)
        r == AppendSentPost(k, SentPostOf(packet, data, dec.packetAck))
    IN IF ~dec.ok THEN [k |-> k, err |-> ErrUnmarshalAck] ELSE [k |-> r.k, err |-> Nil]

\* Mutant of OnAckDefault: an unknown response is accepted.
OnAckDefault_Accept(k) == [k |-> k, err |-> Nil]

\* default
OnAckDefault(k) == [k |-> k, err |-> ErrAckFormat]

\* OnAcknowledgementIbcPostPacket: [k, err]
OnAcknowledgementIbcPostPacket(k, packet, data, ack) ==
    CASE ack.type = "Error" -> OnAckError(k, packet, data, ack.error)
      [] ack.type = "Result" -> OnAckResult(k, packet, data, ack.result)
      [] OTHER -> OnAckDefault(k)

\* Mutant of OnTimeoutIbcPostPacket: the timeout also records the post as sent.
OnTimeoutIbcPostPacket_AlsoSent(k, packet, data) ==
    LET r == AppendTimedoutPost(k, TimedoutPostOf(packet, data))
    IN [k |-> AppendSentPost(r.k, SentPostOf(packet, data, [PostID |-> ""])).k, err |-> Nil]

\* Mutant of OnTimeoutIbcPostPacket: a post already recorded as timed out, or
\* already recorded as sent, is not recorded again.
OnTimeoutIbcPostPacket_Once(k, packet, data) ==
    LET t == TimedoutPostOf(packet, data)
        known == \/ \E i \in DOMAIN k.timedoutPosts.list :
                       [k.timedoutPosts.list[i] EXCEPT !.Id = 0] = t
                 \/ \E i \in DOMAIN k.sentPosts.list :
                       /\ k.sentPosts.list[i].Creator = t.Creator
                       /\ k.sentPosts.list[i].Title = t.Title
                       /\ k.sentPosts.list[i].Chain = t.Chain
    IN IF known THEN [k |-> k, err |-> Nil] ELSE [k |-> AppendTimedoutPost(k, t).k, err |-> Nil]

\* Mutant of OnTimeoutIbcPostPacket: the payload is validated first.
OnTimeoutIbcPostPacket_Validated(k, packet, data) ==
    IF ValidateBasic(data) # Nil
    THEN [k |-> k, err |-> ValidateBasic(data)]
    ELSE [k |-> AppendTimedoutPost(k, TimedoutPostOf(packet, data)).k, err |-> Nil]

\* OnTimeoutIbcPostPacket: [k, err]
OnTimeoutIbcPostPacket(k, packet, data) ==
    [k |-> AppendTimedoutPost(k, TimedoutPostOf(packet, data)).k, err |-> Nil]

-----------------------------------------------------------------------------
\* The two chains and their channel: (post, channel-0) on A is connected to
\* (post, channel-1) on B. A also has a channel without send-sequence state
\* (channel-5), a channel whose capability the module does not hold
\* (channel-6), a channel with neither (channel-3), and send-sequence state
\* and a capability for a channel that does not exist (channel-4).

Chains == {"A", "B"}

Peer(c) == IF c = "A" THEN "B" ELSE "A"

End(portID, channelID) == [Counterparty |-> [PortID |-> portID, ChannelID |-> channelID]]

InitChannels(c) ==
    IF c = "A"
    THEN (<<"post", "channel-0">> :> End("post", "channel-1"))
           @@ (<<"post", "channel-5">> :> End("post", "channel-7"))
           @@ (<<"post", "channel-6">> :> End("post", "channel-8"))
           @@ (<<"post", "channel-3">> :> End("post", "channel-2"))
    ELSE (<<"post", "channel-1">> :> End("post", "channel-0"))

InitNextSequenceSend(c) ==
    IF c = "A"
    THEN (<<"post", "channel-0">> :> 1) @@ (<<"post", "channel-6">> :> 1)
           @@ (<<"post", "channel-4">> :> 1)
    ELSE (<<"post", "channel-1">> :> 1)

InitCapabilities(c) ==
    IF c = "A"
    THEN {ChannelCapabilityPath("post", "channel-0"), ChannelCapabilityPath("post", "channel-5"),
          ChannelCapabilityPath("post", "channel-4")}
    ELSE {ChannelCapabilityPath("post", "channel-1")}

\* The store counters a chain starts with (its genesis state).
InitCounts == {0, 9}

NewKeeper(c, count) ==
    [posts |-> NewStore(count),
     sentPosts |-> NewStore(count),
     timedoutPosts |-> NewStore(count),
     channels |-> InitChannels(c),
     nextSequenceSend |-> InitNextSequenceSend(c),
     capabilities |-> InitCapabilities(c),
     commitments |-> {},
     acks |-> [p \in {} |-> NilAck]]

\* The three stores of a keeper state.
Stores(k) == [posts |-> k.posts, sentPosts |-> k.sentPosts, timedoutPosts |-> k.timedoutPosts]

-----------------------------------------------------------------------------
\* Inputs

Data(creator, title, content) == [Creator |-> creator, Title |-> title, Content |-> content]

\* Payloads handed to the receive callback: a valid one, one without creator,
\* one without title.
RecvDatas == {Data("alice", "T", "C"), Data("", "T", "C"), Data("alice", "", "C")}

\* Payloads handed to the reconcilers, which validate nothing.
Datas == {Data("alice", "T", "C"), Data("", "", "")}

\* Payloads handed to the transmitter: a valid one, one the codec cannot encode.
TransmitDatas == {Data("alice", "T", "C"), Data(BadString, "T", "C")}

\* (chain, source port, source channel) of a transmit call: every channel of
\* A, the channel of B, and a channel that does not exist.
TransmitEnds ==
    {<<"A", "post", "channel-0">>, <<"A", "post", "channel-5">>, <<"A", "post", "channel-6">>,
     <<"A", "post", "channel-9">>, <<"B", "post", "channel-1">>,
     <<"A", "post", "channel-3">>, <<"A", "post", "channel-4">>}

SomeHeight == [RevisionNumber |-> 1, RevisionHeight |-> 5]

\* (timeoutHeight, timeoutTimestamp) of a transmit call.
Timeouts == {<<ZeroHeight, 0>>, <<SomeHeight, 0>>, <<ZeroHeight, 7>>}

\* The packets a caller hands to the receive, acknowledgement and timeout
\* callbacks: the first packet of either direction of the channel, as
\* (origin chain, source port, source channel, destination port, destination channel).
Routes ==
    {<<"A", "post", "channel-0", "post", "channel-1">>,
     <<"B", "post", "channel-1", "post", "channel-0">>}

PacketOf(data, route) ==
    NewPacket(GetBytes(data).bytes, 1, route[2], route[3], route[4], route[5], SomeHeight, 0)

Acks ==
    {ResultAck(EncodeAck([PostID |-> "7"])),
     ResultAck(EncodeAck([PostID |-> "10"])),
     ResultAck(<<>>),
     ResultAck(<<P("{"), Str("postID"), P(":"), <<"n", "7">>, P("}")>>),
     ErrorAck("invalid packet data"),
     ErrorAck(""),
     NilAck,
     OtherAck}

-----------------------------------------------------------------------------
\* State

\* The packet a reconciler call is about: the chain it originated on and the
\* (port, channel, sequence) that identify it there.
PacketKey(c, packet) == <<c, packet.SourcePort, packet.SourceChannel, packet.Sequence>>

\* The ids a call added to a store.
NewIds(before, after) == DOMAIN after.list \ DOMAIN before.list

\* The terminal state a reconciler call puts its packet in.
AckOutcome(ack, err) ==
    IF err # Nil THEN "AckRejected"
    ELSE IF ack.type = "Error" THEN "AckedFailure"
    ELSE "AckedSuccess"

Event(c, packet, outcome, before, after) ==
    [pkt |-> PacketKey(c, packet),
     outcome |-> outcome,
     sent |-> NewIds(before.sentPosts, after.sentPosts),
     timedout |-> NewIds(before.timedoutPosts, after.timedoutPosts)]

Init ==
    /\ \E count \in InitCounts : chain = [c \in Chains |-> NewKeeper(c, count)]
    /\ last = [op |-> "init"]
    /\ hist = <<>>
    /\ nCalls = 0

\* The number of packets SendPacket has accepted so far, on both chains.
SentTotal ==
    (chain["A"].nextSequenceSend[<<"post", "channel-0">>] - 1)
      + (chain["B"].nextSequenceSend[<<"post", "channel-1">>] - 1)

\* The application calls TransmitIbcPostPacket on chain end[1].
DoTransmit(packetData, end, timeout) ==
    LET c == end[1]
        r == TransmitIbcPostPacket(chain[c], packetData, end[2], end[3], timeout[1], timeout[2])
    IN /\ SentTotal < MaxSends
       /\ chain' = [chain EXCEPT ![c] = r.k]
       /\ last' = [op |-> "transmit", chain |-> c, packetData |-> packetData,
                   sourcePort |-> end[2], sourceChannel |-> end[3],
                   timeoutHeight |-> timeout[1], timeoutTimestamp |-> timeout[2],
                   err |-> r.err, sent |-> r.sent, packet |-> r.packet, cap |-> r.cap,
                   pre |-> chain[c]]
       /\ UNCHANGED hist

Transmit ==
    /\ nCalls < MaxCalls
    /\ \E packetData \in TransmitDatas, end \in TransmitEnds, timeout \in Timeouts :
         DoTransmit(packetData, end, timeout)
    /\ nCalls' = nCalls + 1

\* OnRecvIbcPostPacket is called on chain c.
DoRecv(c, packet, data) ==
    LET r == OnRecvIbcPostPacket(chain[c], packet, data)
    IN /\ chain' = [chain EXCEPT ![c] = r.k]
       /\ last' = [op |-> "recv", chain |-> c, packet |-> packet, data |-> data,
                   packetAck |-> r.packetAck, err |-> r.err, pre |-> chain[c]]
       /\ UNCHANGED hist

\* OnAcknowledgementIbcPostPacket is called on chain c.
DoAck(c, packet, data, ack) ==
    LET r == OnAcknowledgementIbcPostPacket(chain[c], packet, data, ack)
    IN /\ chain' = [chain EXCEPT ![c] = r.k]
       /\ last' = [op |-> "ack", chain |-> c, packet |-> packet, data |-> data,
                   ack |-> ack, err |-> r.err, pre |-> chain[c]]
       /\ hist' = Append(hist, Event(c, packet, AckOutcome(ack, r.err), chain[c], r.k))

\* OnTimeoutIbcPostPacket is called on chain c.
DoTimeout(c, packet, data) ==
    LET r == OnTimeoutIbcPostPacket(chain[c], packet, data)
    IN /\ chain' = [chain EXCEPT ![c] = r.k]
       /\ last' = [op |-> "timeout", chain |-> c, packet |-> packet, data |-> data,
                   err |-> r.err, pre |-> chain[c]]
       /\ hist' = Append(hist, Event(c, packet, "TimedOut", chain[c], r.k))

\* A caller that promises nothing: any callback, with any packet, any number
\* of times. A packet is received on the peer of the chain it originated on and
\* reconciled on the chain it originated on.
Recv ==
    /\ nCalls < MaxCalls
    /\ \E data \in RecvDatas, route \in Routes :
         DoRecv(Peer(route[1]), PacketOf(data, route), data)
    /\ nCalls' = nCalls + 1

Ack ==
    /\ nCalls < MaxCalls
    /\ \E data \in Datas, route \in Routes, ack \in Acks :
         DoAck(route[1], PacketOf(data, route), data, ack)
    /\ nCalls' = nCalls + 1

Timeout ==
    /\ nCalls < MaxCalls
    /\ \E data \in Datas, route \in Routes :
         DoTimeout(route[1], PacketOf(data, route), data)
    /\ nCalls' = nCalls + 1

Next == Transmit \/ Recv \/ Ack \/ Timeout

Spec == Init /\ [][Next]_vars

-----------------------------------------------------------------------------
\* The transport of the channel (IBC core and a relayer) with this module on
\* both chains. A committed packet is delivered to the peer chain at most once,
\* where the result of OnRecvIbcPostPacket is written as its acknowledgement;
\* the acknowledgement is relayed back unmodified, or the packet times out if
\* it was never delivered; either removes the packet's commitment, so a packet
\* is reconciled at most once.

\* The acknowledgement the module writes for a received packet.
WrittenAck(dec, r) ==
    IF ~dec.ok THEN ErrorAck("cannot unmarshal packet data")
    ELSE IF r.err # Nil THEN ErrorAck(r.err[1])
    ELSE ResultAck(EncodeAck(r.packetAck))

Deliver ==
    \E c \in Chains : \E packet \in chain[c].commitments :
        LET d == Peer(c)
            dec == DecodePacketData(packet.Data)
            r == IF dec.ok THEN OnRecvIbcPostPacket(chain[d], packet, dec.data)
                 ELSE [k |-> chain[d], packetAck |-> [PostID |-> ""], err |-> ErrInvalidData]
        IN /\ packet \notin DOMAIN chain[d].acks
           /\ <<packet.DestinationPort, packet.DestinationChannel>> \in DOMAIN chain[d].channels
           /\ chain' = [chain EXCEPT ![d] = [r.k EXCEPT !.acks = (packet :> WrittenAck(dec, r)) @@ @]]
           /\ last' = [op |-> "recv", chain |-> d, packet |-> packet, data |-> dec.data,
                       packetAck |-> r.packetAck, err |-> r.err, pre |-> chain[d]]
           /\ UNCHANGED <<hist, nCalls>>

\* A callback that returns an error fails the relayer's transaction: the
\* chain's state is as before it.
RelayAck ==
    \E c \in Chains : \E packet \in chain[c].commitments :
        LET d == Peer(c)
            ack == chain[d].acks[packet]
            data == DecodePacketData(packet.Data).data
            r == OnAcknowledgementIbcPostPacket(chain[c], packet, data, ack)
        IN /\ packet \in DOMAIN chain[d].acks
           /\ chain' = [chain EXCEPT ![c] =
                           IF r.err = Nil THEN [r.k EXCEPT !.commitments = @ \ {packet}] ELSE @]
           /\ last' = [op |-> "ack", chain |-> c, packet |-> packet, data |-> data,
                       ack |-> ack, err |-> r.err, pre |-> chain[c]]
           /\ hist' = IF r.err = Nil
                      THEN Append(hist, Event(c, packet, AckOutcome(ack, r.err), chain[c], r.k))
                      ELSE hist
           /\ UNCHANGED nCalls

RelayTimeout ==
    \E c \in Chains : \E packet \in chain[c].commitments :
        LET d == Peer(c)
            data == DecodePacketData(packet.Data).data
            r == OnTimeoutIbcPostPacket(chain[c], packet, data)
        IN /\ packet \notin DOMAIN chain[d].acks
           /\ chain' = [chain EXCEPT ![c] =
                           IF r.err = Nil THEN [r.k EXCEPT !.commitments = @ \ {packet}] ELSE @]
           /\ last' = [op |-> "timeout", chain |-> c, packet |-> packet, data |-> data,
                       err |-> r.err, pre |-> chain[c]]
           /\ hist' = IF r.err = Nil
                      THEN Append(hist, Event(c, packet, "TimedOut", chain[c], r.k))
                      ELSE hist
           /\ UNCHANGED nCalls

\* What the applications of the two chains send: a valid payload or one the
\* receiver rejects, on the channel or on a channel that does not exist, with a
\* timeout or without.
OriginateDatas == {Data("alice", "T", "C"), Data("bob", "", "C")}

OriginateEnds == {<<"A", "post", "channel-0">>, <<"B", "post", "channel-1">>, <<"A", "post", "channel-9">>}

OriginateTimeouts == {<<SomeHeight, 0>>, <<ZeroHeight, 0>>}

Originate ==
    /\ \E packetData \in OriginateDatas, end \in OriginateEnds, timeout \in OriginateTimeouts :
         DoTransmit(packetData, end, timeout)
    /\ UNCHANGED nCalls

TransportNext == Originate \/ Deliver \/ RelayAck \/ RelayTimeout

TransportSpec == Init /\ [][TransportNext]_vars

-----------------------------------------------------------------------------
\* The receiving side on its own: OnRecvIbcPostPacket is called on either
\* chain with packets from any source end and payloads of any creator, and
\* the ghost hist logs each call with the ids of the posts it created.

\* (SourcePort, SourceChannel) of the received packets.
RecvSources ==
    {<<"post", "channel-0">>, <<"post", "channel-1">>, <<"post-channel-0", "channel-1">>}

\* The creators of the received payloads.
RecvCreators == {"alice", "channel-1-alice", ""}

RecvEvent(c, packet, data, r) ==
    [chain |-> c,
     sourcePort |-> packet.SourcePort,
     sourceChannel |-> packet.SourceChannel,
     creator |-> data.Creator,
     err |-> r.err,
     postID |-> r.packetAck.PostID,
     ids |-> NewIds(chain[c].posts, r.k.posts)]

Receive ==
    /\ nCalls < MaxCalls
    /\ \E c \in Chains, src \in RecvSources, creator \in RecvCreators :
         LET data == Data(creator, "T", "C")
             packet == NewPacket(GetBytes(data).bytes, 1, src[1], src[2],
                                 "post", "channel-1", SomeHeight, 0)
             r == OnRecvIbcPostPacket(chain[c], packet, data)
         IN /\ chain' = [chain EXCEPT ![c] = r.k]
            /\ last' = [op |-> "recv", chain |-> c, packet |-> packet, data |-> data,
                        packetAck |-> r.packetAck, err |-> r.err, pre |-> chain[c]]
            /\ hist' = Append(hist, RecvEvent(c, packet, data, r))
    /\ nCalls' = nCalls + 1

RecvNext == Receive

RecvSpec == Init /\ [][RecvNext]_vars

-----------------------------------------------------------------------------
\* Vocabulary of the properties

\* The keeper state the last call ran on, after it and before it.
Cur == chain[last.chain]
Pre == last.pre

\* The store `after` is the store `before` with exactly one record more, equal
\* to `record` and stored under the id the store assigned to it.
Gained(before, after, record) ==
    /\ before.count \notin DOMAIN before.list
    /\ after.count = before.count + 1
    /\ DOMAIN after.list = DOMAIN before.list \cup {before.count}
    /\ \A i \in DOMAIN before.list : after.list[i] = before.list[i]
    /\ after.list[before.count] = [record EXCEPT !.Id = before.count]

\* The decimal numerals of the ids the stores assign within the bounds.
Decimal ==
    <<"1", "2", "3", "4", "5", "6", "7", "8", "9", "10", "11", "12", "13", "14", "15",
      "16", "17", "18", "19", "20">>

DecimalOf(n) == IF n = 0 THEN "0" ELSE Decimal[n]

\* The packets reconciled so far, the reconciler calls made for a packet and
\* the records those calls created.
Keys == {hist[i].pkt : i \in DOMAIN hist}

EventsOf(key) == {i \in DOMAIN hist : hist[i].pkt = key}

RecordsOf(key) ==
    UNION {{<<i, "sent", id>> : id \in hist[i].sent}
             \cup {<<i, "timedout", id>> : id \in hist[i].timedout} : i \in EventsOf(key)}

\* The calls for a packet that the code answers with a record: a timeout, or
\* an acknowledgement with a decodable result.
RecordingEventsOf(key) ==
    {i \in EventsOf(key) : hist[i].outcome \in {"AckedSuccess", "TimedOut"}}

-----------------------------------------------------------------------------
\* C1: under a transport that reconciles each packet at most once, every
\* packet enters at most one terminal state, at most once, and has at most one
\* record in the sent-post and timed-out-post stores together.
C1_AtMostOneRecordPerPacket ==
    \A key \in Keys :
        /\ Cardinality(EventsOf(key)) <= 1
        /\ Cardinality(RecordsOf(key)) <= 1
        /\ \A i \in EventsOf(key) :
              /\ hist[i].sent \subseteq DOMAIN chain[key[1]].sentPosts.list
              /\ hist[i].timedout \subseteq DOMAIN chain[key[1]].timedoutPosts.list

\* Three packets have been reconciled, one in each terminal state.
C1_Witness ==
    \E i, j, l \in DOMAIN hist :
        /\ hist[i].outcome = "AckedSuccess" /\ Cardinality(hist[i].sent) = 1
        /\ hist[j].outcome = "TimedOut" /\ Cardinality(hist[j].timedout) = 1
        /\ hist[l].outcome = "AckedFailure"

\* C2 as stated: whatever calls are made with a packet, at most one sent-post
\* or timed-out-post record is ever created for it.
C2_Original == \A key \in Keys : Cardinality(RecordsOf(key)) <= 1

\* C2 amended: every timeout call and every acknowledgement call with a
\* decodable result creates exactly one new record, in its own store, whatever
\* calls were made with the packet before; every other call creates none; so a
\* packet has as many records as such calls were made with it, and all persist.
C2_OneRecordPerCall ==
    \A key \in Keys :
        /\ Cardinality(RecordsOf(key)) = Cardinality(RecordingEventsOf(key))
        /\ \A i \in EventsOf(key) :
              /\ hist[i].outcome = "AckedSuccess" =>
                    Cardinality(hist[i].sent) = 1 /\ hist[i].timedout = {}
              /\ hist[i].outcome = "TimedOut" =>
                    Cardinality(hist[i].timedout) = 1 /\ hist[i].sent = {}
              /\ hist[i].outcome \in {"AckedFailure", "AckRejected"} =>
                    hist[i].sent = {} /\ hist[i].timedout = {}
              /\ hist[i].sent \subseteq DOMAIN chain[key[1]].sentPosts.list
              /\ hist[i].timedout \subseteq DOMAIN chain[key[1]].timedoutPosts.list
              /\ \A j \in EventsOf(key) :
                    i # j => /\ hist[i].sent \cap hist[j].sent = {}
                             /\ hist[i].timedout \cap hist[j].timedout = {}

\* One packet was acknowledged with a result and then timed out, and has a
\* sent post and a timed-out post.
C2_Witness ==
    \E key \in Keys : \E i, j \in EventsOf(key) :
        /\ i < j
        /\ hist[i].outcome = "AckedSuccess"
        /\ hist[j].outcome = "TimedOut"
        /\ Cardinality(RecordsOf(key)) = 2

\* C3: a received payload with an empty creator or an empty title is refused
\* with an error and the post store is as it was before the call.
C3_InvalidRecvChangesNothing ==
    (last.op = "recv" /\ (last.data.Creator = "" \/ last.data.Title = "")) =>
        /\ last.err # Nil
        /\ Cur.posts = Pre.posts
        /\ Stores(Cur) = Stores(Pre)

\* A payload without title was refused on a chain that holds a post.
C3_Witness ==
    /\ last.op = "recv"
    /\ last.data.Title = ""
    /\ last.err # Nil
    /\ DOMAIN Pre.posts.list # {}

\* C4: a received valid payload adds exactly one post, with the creator
\* prefixed by the packet's source port and channel and the payload's title
\* and content, and the acknowledgement carries the decimal numeral of the id
\* the store gave that post.
C4_ValidRecvAppendsPost ==
    (last.op = "recv" /\ last.data.Creator # "" /\ last.data.Title # "") =>
        /\ last.err = Nil
        /\ Gained(Pre.posts, Cur.posts,
                  [Id |-> 0,
                   Creator |-> last.packet.SourcePort \o "-" \o last.packet.SourceChannel
                                  \o "-" \o last.data.Creator,
                   Title |-> last.data.Title,
                   Content |-> last.data.Content])
        /\ last.packetAck.PostID = DecimalOf(Pre.posts.count)

\* A valid payload was received and stored under id 10.
C4_Witness ==
    /\ last.op = "recv"
    /\ last.err = Nil
    /\ last.packetAck.PostID = "10"
    /\ 10 \in DOMAIN Cur.posts.list

\* C5: an acknowledgement with a result that spells an acknowledgement with
\* post id p adds exactly one sent post, with the payload's creator and title,
\* post id p and the packet's destination port and channel as chain, and
\* returns no error.
C5_ResultAckAppendsSentPost ==
    \A p \in {"", "7", "10"} :
        (last.op = "ack" /\ last.ack.type = "Result"
            /\ last.ack.result = <<P("{"), Str("postID"), P(":"), Str(p), P("}")>>) =>
            /\ last.err = Nil
            /\ Gained(Pre.sentPosts, Cur.sentPosts,
                      [Id |-> 0,
                       Creator |-> last.data.Creator,
                       PostID |-> p,
                       Title |-> last.data.Title,
                       Chain |-> last.packet.DestinationPort \o "-"
                                    \o last.packet.DestinationChannel])

\* The result {"postID":"10"} was acknowledged for a payload of alice.
C5_Witness ==
    /\ last.op = "ack"
    /\ last.ack = ResultAck(<<P("{"), Str("postID"), P(":"), Str("10"), P("}")>>)
    /\ last.data.Creator = "alice"
    /\ last.err = Nil
    /\ Cur.sentPosts.count = Pre.sentPosts.count + 1

\* Result bytes that spell no acknowledgement: no bytes, and a number where
\* the post id string belongs.
Undecodable == {<<>>, <<P("{"), Str("postID"), P(":"), <<"n", "7">>, P("}")>>}

\* C6: an acknowledgement with a result that does not decode returns the
\* decode error and no store is changed.
C6_UndecodableAckChangesNothing ==
    (last.op = "ack" /\ last.ack.type = "Result" /\ last.ack.result \in Undecodable) =>
        /\ last.err = New("cannot unmarshal acknowledgment")
        /\ Stores(Cur) = Stores(Pre)

\* An undecodable result was acknowledged on a chain that holds a sent post.
C6_Witness ==
    /\ last.op = "ack"
    /\ last.ack.type = "Result"
    /\ last.ack.result \in Undecodable
    /\ last.err # Nil
    /\ DOMAIN Pre.sentPosts.list # {}

\* C7: an acknowledgement with an error returns no error and changes none of
\* the three stores, whatever the message; the call creates no record.
C7_ErrorAckChangesNothing ==
    (last.op = "ack" /\ last.ack.type = "Error") =>
        /\ last.err = Nil
        /\ Stores(Cur) = Stores(Pre)
        /\ Len(hist) > 0
        /\ hist[Len(hist)].sent = {} /\ hist[Len(hist)].timedout = {}

\* An error with a message was acknowledged on a chain that holds records.
C7_Witness ==
    /\ last.op = "ack"
    /\ last.ack.type = "Error"
    /\ last.ack.error # ""
    /\ last.err = Nil
    /\ DOMAIN Pre.sentPosts.list # {} \/ DOMAIN Pre.timedoutPosts.list # {}

\* C8: an acknowledgement whose response is neither a result nor an error,
\* a nil response included, returns the unsupported-format error, which is
\* not the decode error, and changes no store.
C8_UnknownAckRejected ==
    (last.op = "ack" /\ last.ack.type \notin {"Result", "Error"}) =>
        /\ last.err = New("the counter-party module does not implement the correct acknowledgment format")
        /\ last.err # New("cannot unmarshal acknowledgment")
        /\ Stores(Cur) = Stores(Pre)

\* A nil response was rejected.
C8_Witness ==
    /\ last.op = "ack"
    /\ last.ack = NilAck
    /\ last.err # Nil

\* C9: a timeout adds exactly one timed-out post, with the payload's creator
\* and title and the packet's destination port and channel as chain, and
\* returns no error, whatever the payload and whatever the stores hold.
C9_TimeoutAppendsTimedoutPost ==
    (last.op = "timeout") =>
        /\ last.err = Nil
        /\ Gained(Pre.timedoutPosts, Cur.timedoutPosts,
                  [Id |-> 0,
                   Title |-> last.data.Title,
                   Creator |-> last.data.Creator,
                   Chain |-> last.packet.DestinationPort \o "-"
                                \o last.packet.DestinationChannel])

\* A payload without creator and title timed out for the second time.
C9_Witness ==
    /\ last.op = "timeout"
    /\ last.data.Creator = ""
    /\ last.err = Nil
    /\ \E i \in DOMAIN Pre.timedoutPosts.list :
          /\ Pre.timedoutPosts.list[i].Creator = ""
          /\ Pre.timedoutPosts.list[i].Chain = Cur.timedoutPosts.list[Pre.timedoutPosts.count].Chain

\* C10: a transmit call changes none of the three stores; when it does not
\* reach SendPacket it changes nothing at all, and when it does, the state
\* after it is the state SendPacket leaves, the send sequence included.
C10_TransmitChangesNoStore ==
    (last.op = "transmit") =>
        /\ Stores(Cur) = Stores(Pre)
        /\ ~last.sent => Cur = Pre
        /\ last.sent =>
              Cur = SendPacket(Pre,
                               [name |-> ChannelCapabilityPath(last.sourcePort, last.sourceChannel)],
                               last.packet).k
        /\ last.err # Nil => Cur.nextSequenceSend = Pre.nextSequenceSend

\* A packet was sent from a chain that holds records, and the transport
\* advanced the send sequence.
C10_Witness ==
    /\ last.op = "transmit"
    /\ last.sent
    /\ last.err = Nil
    /\ Cur.nextSequenceSend # Pre.nextSequenceSend
    /\ DOMAIN Pre.sentPosts.list # {}

\* The transmit call found its channel, its send sequence and its capability
\* and its payload can be encoded.
TransmitReady ==
    /\ last.op = "transmit"
    /\ <<last.sourcePort, last.sourceChannel>> \in DOMAIN Pre.channels
    /\ <<last.sourcePort, last.sourceChannel>> \in DOMAIN Pre.nextSequenceSend
    /\ ("ports/" \o last.sourcePort \o "/channels/" \o last.sourceChannel) \in Pre.capabilities
    /\ BadString \notin {last.packetData.Title, last.packetData.Content, last.packetData.Creator}

\* C11: when channel, send sequence and capability are found and the payload
\* is encoded, the packet handed to SendPacket has the caller's source port and
\* channel, the channel's counterparty as destination, the channel's next send
\* sequence, the caller's timeouts and the encoded payload, and it is handed
\* over with the capability of (source port, source channel).
C11_PacketHandedToSendPacket ==
    TransmitReady =>
        /\ last.sent
        /\ last.packet.SourcePort = last.sourcePort
        /\ last.packet.SourceChannel = last.sourceChannel
        /\ last.packet.DestinationPort =
              Pre.channels[<<last.sourcePort, last.sourceChannel>>].Counterparty.PortID
        /\ last.packet.DestinationChannel =
              Pre.channels[<<last.sourcePort, last.sourceChannel>>].Counterparty.ChannelID
        /\ last.packet.Sequence = Pre.nextSequenceSend[<<last.sourcePort, last.sourceChannel>>]
        /\ last.packet.TimeoutHeight = last.timeoutHeight
        /\ last.packet.TimeoutTimestamp = last.timeoutTimestamp
        /\ last.packet.Data =
              <<P("{"), Str("ibcPostPacket"), P(":"), P("{"),
                Str("title"), P(":"), Str(last.packetData.Title), P(","),
                Str("content"), P(":"), Str(last.packetData.Content), P(","),
                Str("creator"), P(":"), Str(last.packetData.Creator), P("}"), P("}")>>
        /\ last.cap = [name |-> "ports/" \o last.sourcePort \o "/channels/" \o last.sourceChannel]

\* The second packet of a channel was handed over, with a timestamp timeout.
C11_Witness ==
    /\ TransmitReady
    /\ last.sent
    /\ last.err = Nil
    /\ last.packet.Sequence = 2
    /\ last.packet.TimeoutTimestamp = 7
    /\ last.packet.DestinationChannel = "channel-1"

\* What the channel keeper and the capability keeper hold for the end of the
\* last transmit call.
HasChannel == <<last.sourcePort, last.sourceChannel>> \in DOMAIN Pre.channels
HasSequence == <<last.sourcePort, last.sourceChannel>> \in DOMAIN Pre.nextSequenceSend
HasCapability ==
    ("ports/" \o last.sourcePort \o "/channels/" \o last.sourceChannel) \in Pre.capabilities
Encodable ==
    BadString \notin {last.packetData.Title, last.packetData.Content, last.packetData.Creator}

\* C12: a transmit call fails with channel-not-found when the channel is
\* missing, whatever sequence and capability are; with sequence-not-found when
\* the channel is there and the send sequence is not, whatever the capability
\* is; with capability-not-found when only the capability is missing; with the
\* marshal error when only the encoding fails; and in none of these cases
\* SendPacket is invoked or anything changed.
C12_TransmitChecksInOrder ==
    (last.op = "transmit") =>
        /\ ~HasChannel =>
              last.err = <<"port ID (" \o last.sourcePort \o ") channel ID ("
                             \o last.sourceChannel \o ")", "channel not found">>
        /\ (HasChannel /\ ~HasSequence) =>
              last.err = <<"source port: " \o last.sourcePort \o ", source channel: "
                             \o last.sourceChannel, "sequence send not found">>
        /\ (HasChannel /\ HasSequence /\ ~HasCapability) =>
              last.err = <<"module does not own channel capability", "channel capability not found">>
        /\ (HasChannel /\ HasSequence /\ HasCapability /\ ~Encodable) =>
              /\ Len(last.err) = 2
              /\ last.err[2] = "failed to marshal JSON bytes"
        /\ ~(HasChannel /\ HasSequence /\ HasCapability /\ Encodable) =>
              /\ ~last.sent
              /\ Cur = Pre
              /\ last.packet = NoPacket

\* A transmit call on a channel with neither send sequence nor capability
\* failed with sequence-not-found.
C12_Witness ==
    /\ last.op = "transmit"
    /\ HasChannel /\ ~HasSequence /\ ~HasCapability
    /\ last.err # Nil
    /\ last.err[2] = "sequence send not found"

\* C13: when the lookups and the encoding of a transmit call succeed, the call
\* returns what SendPacket returns for the packet and capability it was
\* handed: the same error, not wrapped, when SendPacket fails, and nil exactly
\* when SendPacket succeeds; the keeper state after the call is the one
\* SendPacket left.
C13_TransmitReturnsSendPacketResult ==
    TransmitReady =>
        /\ last.sent
        /\ last.err = SendPacket(Pre, last.cap, last.packet).err
        /\ Cur = SendPacket(Pre, last.cap, last.packet).k
        /\ (last.timeoutHeight = ZeroHeight /\ last.timeoutTimestamp = 0) =>
              /\ last.err = <<"packet failed basic validation", "invalid packet">>
              /\ Cur = Pre
        /\ ~(last.timeoutHeight = ZeroHeight /\ last.timeoutTimestamp = 0) =>
              /\ last.err = Nil
              /\ last.packet \in Cur.commitments

\* A transmit call whose lookups and encoding succeeded and whose packet
\* SendPacket rejected.
C13_Witness ==
    /\ TransmitReady
    /\ last.sent
    /\ last.err = <<"packet failed basic validation", "invalid packet">>

\* The calls of the receiving side that stored a post, and the post each
\* stored.
Stored == {i \in DOMAIN hist : hist[i].err = Nil /\ hist[i].ids # {}}
StoredId(i) == CHOOSE id \in hist[i].ids : TRUE
StoredPost(i) == chain[hist[i].chain].posts.list[StoredId(i)]

\* C14 as stated: two received packets that differ in source port or source
\* channel never give posts with the same creator.
C14_Original ==
    \A i, j \in Stored :
        (<<hist[i].sourcePort, hist[i].sourceChannel>> # <<hist[j].sourcePort, hist[j].sourceChannel>>)
            => StoredPost(i).Creator # StoredPost(j).Creator

\* C15: on each chain the ids of the posts that successive receive calls
\* store are strictly increasing and distinct, each successful call stores
\* one post and acknowledges the decimal numeral of its id, and a call that
\* fails validation stores nothing and uses up no id: the next successful call
\* gets the id following the last successful one.
C15_PostIdsStrictlyIncrease ==
    \A i \in DOMAIN hist :
        /\ hist[i].err # Nil => (hist[i].ids = {} /\ hist[i].postID = "")
        /\ hist[i].err = Nil =>
              /\ Cardinality(hist[i].ids) = 1
              /\ hist[i].postID = DecimalOf(StoredId(i))
              /\ StoredId(i) \in DOMAIN chain[hist[i].chain].posts.list
        /\ \A j \in DOMAIN hist :
              (i < j /\ i \in Stored /\ j \in Stored /\ hist[i].chain = hist[j].chain) =>
                  /\ StoredId(i) < StoredId(j)
                  /\ hist[i].postID # hist[j].postID
                  /\ (\A l \in Stored : hist[l].chain = hist[i].chain => ~(i < l /\ l < j))
                        => StoredId(j) = StoredId(i) + 1

\* Two posts were stored on one chain with a refused payload between them,
\* under ids 9 and 10.
C15_Witness ==
    \E i, l, j \in DOMAIN hist :
        /\ i < l /\ l < j
        /\ hist[i].chain = hist[j].chain /\ hist[l].chain = hist[i].chain
        /\ hist[i].postID = "9" /\ hist[l].err # Nil /\ hist[j].postID = "10"

\* The outcomes the transport may deliver for a packet: an acknowledgement
\* or a timeout.
Outcomes ==
    {[kind |-> "ack", ack |-> a] : a \in Acks} \cup {[kind |-> "timeout", ack |-> NilAck]}

\* The keeper state after the callback for outcome o of packet is run on k.
Reconcile(k, packet, o) ==
    IF o.kind = "ack"
    THEN OnAcknowledgementIbcPostPacket(k, packet, DecodePacketData(packet.Data).data, o.ack).k
    ELSE OnTimeoutIbcPostPacket(k, packet, DecodePacketData(packet.Data).data).k

\* Two stores hold the same records apart from the keys: as many records, and
\* each record without its id as often in the one as in the other.
Body(record) == [record EXCEPT !.Id = 0]
Bodies(store) == {Body(store.list[i]) : i \in DOMAIN store.list}
Copies(store, body) == Cardinality({i \in DOMAIN store.list : Body(store.list[i]) = body})
SameRecords(s, t) ==
    /\ s.count = t.count
    /\ Bodies(s) = Bodies(t)
    /\ \A body \in Bodies(s) : Copies(s, body) = Copies(t, body)

\* C16: for any two different packets a chain has originated and any outcome
\* of each, running the two callbacks in either order leaves the sent-post
\* store and the timed-out-post store with the same records apart from the
\* keys, and the post store as it was.
C16_ReconciliationCommutes ==
    \A c \in Chains : \A p, q \in chain[c].commitments :
        p # q =>
            \A o1, o2 \in Outcomes :
                LET pq == Reconcile(Reconcile(chain[c], p, o1), q, o2)
                    qp == Reconcile(Reconcile(chain[c], q, o2), p, o1)
                IN /\ SameRecords(pq.sentPosts, qp.sentPosts)
                   /\ SameRecords(pq.timedoutPosts, qp.timedoutPosts)
                   /\ pq.posts = chain[c].posts
                   /\ qp.posts = chain[c].posts

\* A chain has two pending packets of the same payload, one received with a
\* result by the counterparty and one not received: the acknowledgement of the
\* first and the timeout of the second give a sent post and a timed-out post,
\* under different keys in the two orders of a store that holds records.
C16_Witness ==
    \E c \in Chains : \E p, q \in chain[c].commitments :
        /\ p # q
        /\ p.Data = q.Data
        /\ p \in DOMAIN chain[Peer(c)].acks
        /\ chain[Peer(c)].acks[p].type = "Result"
        /\ q \notin DOMAIN chain[Peer(c)].acks
        /\ LET o1 == [kind |-> "ack", ack |-> chain[Peer(c)].acks[p]]
               o2 == [kind |-> "timeout", ack |-> NilAck]
               pq == Reconcile(Reconcile(chain[c], p, o1), q, o2)
           IN /\ pq.sentPosts.count = chain[c].sentPosts.count + 1
              /\ pq.timedoutPosts.count = chain[c].timedoutPosts.count + 1

\* The acknowledgements the counterparty of chain c has written for the
\* packet with the given key.
WrittenFor(key) ==
    {chain[Peer(key[1])].acks[packet] :
        packet \in {pk \in DOMAIN chain[Peer(key[1])].acks : PacketKey(key[1], pk) = key}}

\* C17: under the transport, every sent post of a chain was created by the
\* acknowledgement of one of its packets, for which the counterparty wrote a
\* result; the counterparty holds a post whose id has the sent post's post id
\* as decimal numeral, with the sent post's title and with the packet's source
\* port, source channel and the sent post's creator, joined by hyphens, as
\* creator; no sent post exists for a packet the counterparty rejected or has
\* not received.
C17_SentPostMatchesCounterpartyPost ==
    /\ \A c \in Chains : \A id \in DOMAIN chain[c].sentPosts.list :
          \E i \in DOMAIN hist : hist[i].pkt[1] = c /\ id \in hist[i].sent
    /\ \A i \in DOMAIN hist : \A id \in hist[i].sent :
          LET key == hist[i].pkt
              sentPost == chain[key[1]].sentPosts.list[id]
              posts == chain[Peer(key[1])].posts.list
          IN /\ hist[i].outcome = "AckedSuccess"
             /\ WrittenFor(key) # {}
             /\ \A ack \in WrittenFor(key) : ack.type = "Result"
             /\ \E j \in DOMAIN posts :
                   /\ DecimalOf(j) = sentPost.PostID
                   /\ posts[j].Title = sentPost.Title
                   /\ posts[j].Creator = key[2] \o "-" \o key[3] \o "-" \o sentPost.Creator
                   /\ sentPost.Chain =
                         chain[key[1]].channels[<<key[2], key[3]>>].Counterparty.PortID \o "-"
                            \o chain[key[1]].channels[<<key[2], key[3]>>].Counterparty.ChannelID

\* A sent post with post id 10 exists on a chain, and another packet of that
\* chain was rejected by the counterparty and acknowledged.
C17_Witness ==
    \E c \in Chains :
        /\ \E id \in DOMAIN chain[c].sentPosts.list : chain[c].sentPosts.list[id].PostID = "10"
        /\ \E i \in DOMAIN hist : hist[i].pkt[1] = c /\ hist[i].outcome = "AckedFailure"

\* Every record of the store before is in the store after, under its id and
\* as it was, and the counter has not gone back.
Extends(before, after) ==
    /\ DOMAIN before.list \subseteq DOMAIN after.list
    /\ \A i \in DOMAIN before.list : after.list[i] = before.list[i]
    /\ before.count <= after.count

\* C18: a receive call leaves the sent-post and timed-out-post stores as they
\* were, an acknowledgement call the post and timed-out-post stores, a timeout
\* call the post and sent-post stores; and after any call every record that
\* was in a store is still there, unchanged.
C18_HandlersWriteOwnStoreAppendOnly ==
    /\ (last.op = "recv") =>
          Cur.sentPosts = Pre.sentPosts /\ Cur.timedoutPosts = Pre.timedoutPosts
    /\ (last.op = "ack") =>
          Cur.posts = Pre.posts /\ Cur.timedoutPosts = Pre.timedoutPosts
    /\ (last.op = "timeout") =>
          Cur.posts = Pre.posts /\ Cur.sentPosts = Pre.sentPosts
    /\ (last.op \in {"transmit", "recv", "ack", "timeout"}) =>
          /\ Extends(Pre.posts, Cur.posts)
          /\ Extends(Pre.sentPosts, Cur.sentPosts)
          /\ Extends(Pre.timedoutPosts, Cur.timedoutPosts)

\* A result was acknowledged, and a sent post appended, on a chain that held a
\* post and a timed-out post.
C18_Witness ==
    /\ last.op = "ack"
    /\ last.err = Nil
    /\ Cur.sentPosts.count = Pre.sentPosts.count + 1
    /\ DOMAIN Pre.posts.list # {}
    /\ DOMAIN Pre.timedoutPosts.list # {}

\* The number of packets SendPacket has accepted from chain c, and the number
\* of records in the sent-post and timed-out-post stores of chain c.
SentBy(c) ==
    LET n == chain[c].nextSequenceSend
        RECURSIVE Sum(_)
        Sum(ends) == IF ends = {} THEN 0
                     ELSE LET e == CHOOSE x \in ends : TRUE
                          IN (n[e] - InitNextSequenceSend(c)[e]) + Sum(ends \ {e})
    IN Sum(DOMAIN n)
Reconciled(c) ==
    Cardinality(DOMAIN chain[c].sentPosts.list) + Cardinality(DOMAIN chain[c].timedoutPosts.list)

\* C19: under the transport, a packet that was sent and for which neither an
\* acknowledgement nor a timeout has been delivered has no sent post and no
\* timed-out post on its chain, and the sent posts and timed-out posts of a
\* chain together are never more than the packets SendPacket accepted from
\* it, the pending ones not counted.
C19_PendingPacketHasNoRecord ==
    \A c \in Chains :
        /\ \A packet \in chain[c].commitments :
              /\ EventsOf(PacketKey(c, packet)) = {}
              /\ RecordsOf(PacketKey(c, packet)) = {}
        /\ Reconciled(c) <= SentBy(c)
        /\ Reconciled(c) + Cardinality(chain[c].commitments) <= SentBy(c)
        /\ (SentBy(c) = Cardinality(chain[c].commitments)) => Reconciled(c) = 0

\* A chain has sent three packets: one has a sent post, one a timed-out post
\* and one is pending.
C19_Witness ==
    \E c \in Chains :
        /\ SentBy(c) = 3
        /\ Cardinality(chain[c].commitments) = 1
        /\ DOMAIN chain[c].sentPosts.list # {}
        /\ DOMAIN chain[c].timedoutPosts.list # {}

=============================================================================
